---- MODULE Spec2Model ----
(***************************************************************************)
(* Shard storage of chenjinxuan/influxdb (shard.go): one Shard on one      *)
(* bolt store file, its broker connection and its consumer goroutine.      *)
(* Byte slices are sequences over 0..255; the bolt file is a function      *)
(* from bucket names to functions from keys to values.                     *)
(***************************************************************************)
EXTENDS Integers, Sequences, FiniteSets, TLC

VARIABLES
  store,      \* Shard.store: "nil", "open" (handle to an open DB), "closed" (handle to a closed DB)
  index,      \* Shard.index, highest replicated index held in memory
  file,       \* committed contents of the bolt file: bucket name -> (key -> value)
  proc,       \* consumer goroutine: "none", "recv" (blocked on conn.C()), "track" (write committed, index not yet assigned), "stopped"
  cur,        \* m.Index of the message the consumer holds while proc = "track", -1 otherwise
  chClosed,   \* the broker connection's channel has been closed
  panicked,   \* the process was aborted by an unrecovered panic
  connOpens,  \* arguments of the calls made to conn.Open by this process
  started,    \* number of consumer goroutines started by this process
  handles,    \* number of bolt handles this process holds open
  committed,  \* index argument of the last writeSeries committed to the file, -1 if none
  ret,        \* the last operation: its name, its result, whether it began a store transaction;
              \* with the batch of a writeSeries, the message of the consumer, the value of a readSeries
  group,      \* ShardGroup.Shards: a sequence of shards, each with its store field and its file
  gret,       \* the last operation on the group and its result
  cin,        \* a ShardGroup's StartTime and EndTime and the arguments min, max of Contains
  cout        \* the result of Contains: "none" before the call, then TRUE or FALSE

\* the variables of the ShardGroup and of Contains, which a single Shard leaves alone
groupVars == <<group, gret, cin, cout>>

vars == <<store, index, file, proc, cur, chClosed, panicked, connOpens,
          started, handles, committed, ret, group, gret, cin, cout>>

\* the variables of the single Shard, which the ShardGroup and Contains leave alone
shardVars == <<store, index, file, proc, cur, chClosed, panicked, connOpens,
               started, handles, committed, ret>>

(* ------------------------------ bounds --------------------------------- *)
MaxIndex == 2

\* number of shards of the group
GroupSize == 3

\* the instants 0 .. MaxTime, next to the instants of the documented examples
MaxTime == 3

(* ------------------------- program constants --------------------------- *)
pointHeaderSize == 4 + 4 + 8

writeRawSeriesMessageType == "writeRawSeries"

\* a series id whose 4-byte big-endian encoding is the bytes of "meta"
MetaID == 1835365473

metaBucket == <<109, 101, 116, 97>>

valuesBucket == <<118, 97, 108, 117, 101, 115>>

indexKey == <<105, 110, 100, 101, 120>>

EmptyFn == [x \in {} |-> x]

(* ------------------------------ codec ---------------------------------- *)
\* binary.BigEndian.PutUint32
u32tob(v) ==
  << (v \div 16777216) % 256, (v \div 65536) % 256, (v \div 256) % 256, v % 256 >>

\* binary.BigEndian.PutUint64, for values below 2^31
u64tob(v) == <<0, 0, 0, 0>> \o u32tob(v)

RECURSIVE BigEndian(_, _)
BigEndian(b, acc) ==
  IF b = <<>> THEN acc ELSE BigEndian(Tail(b), acc * 256 + Head(b))

btou64(b) == BigEndian(b, 0)

marshalPointHeader(seriesID, payloadLength, timestamp) ==
  u32tob(seriesID) \o u32tob(payloadLength) \o u64tob(timestamp)

unmarshalPointHeader(b) ==
  [ seriesID      |-> BigEndian(SubSeq(b, 1, 4), 0),
    payloadLength |-> BigEndian(SubSeq(b, 5, 8), 0),
    timestamp     |-> BigEndian(SubSeq(b, 9, 16), 0) ]

Frame(seriesID, timestamp, data) ==
  marshalPointHeader(seriesID, Len(data), timestamp) \o data

(* --------------------------- bolt buckets ------------------------------ *)
\* tx.Bucket(name) # nil
HasBucket(db, name) == name \in DOMAIN db

\* tx.CreateBucketIfNotExists(name)
CreateBucketIfNotExists(db, name) ==
  IF name \in DOMAIN db THEN db
  ELSE [n \in DOMAIN db \cup {name} |-> IF n = name THEN EmptyFn ELSE db[n]]

\* a Put that keeps the value a key already has
BucketPutKeep(db, name, key, value) ==
  [db EXCEPT ![name] =
     [k \in DOMAIN db[name] \cup {key} |->
        IF k \in DOMAIN db[name] THEN db[name][k] ELSE value]]

\* b.Put(key, value) on bucket name
BucketPut(db, name, key, value) ==
  [db EXCEPT ![name] =
     [k \in DOMAIN db[name] \cup {key} |-> IF k = key THEN value ELSE db[name][k]]]

\* tx.DeleteBucket(name), for a bucket that exists
DeleteBucket(db, name) == [n \in DOMAIN db \ {name} |-> db[n]]

\* b.Get(key); the empty slice stands for nil
BucketGet(db, name, key) ==
  IF name \in DOMAIN db /\ key \in DOMAIN db[name] THEN db[name][key] ELSE <<>>

(* ---------------------------- inputs ----------------------------------- *)
BatchOne == Frame(7, 42, <<1, 2, 3>>)

\* three frames, the first and the last for the same series and timestamp
BatchUpsert == Frame(7, 42, <<4>>) \o Frame(7, 43, <<6>>) \o Frame(7, 42, <<5>>)

\* the second frame declares 5 payload bytes and carries 2
BatchBadLen == Frame(7, 43, <<8>>) \o marshalPointHeader(7, 5, 42) \o <<1, 2>>

\* three bytes follow the first frame: no room for a header
BatchShortHdr == Frame(7, 43, <<8>>) \o <<0, 0, 0>>

BatchEmpty == <<>>

\* a frame of the series whose id encodes as "meta"
BatchMeta == Frame(MetaID, 42, <<7>>)

Batches == {BatchOne, BatchUpsert, BatchBadLen, BatchShortHdr, BatchEmpty, BatchMeta}

SeriesIDs == {7, 9, MetaID}

Timestamps == {42, 43}

Indexes == 0 .. MaxIndex

\* the batches the broker delivers: well-formed ones and a malformed one
MessageBatches == {BatchOne, BatchUpsert, BatchBadLen, BatchMeta}

Messages ==
  [Index : Indexes, Type : {writeRawSeriesMessageType}, Data : MessageBatches]
    \cup [Index : Indexes, Type : {"other"}, Data : {<<>>}]

(* ---------------------------- writeSeries ------------------------------ *)
\* a break where the error return belongs: the frames parsed so far are kept
invalidPointBufferBreak(tx) == [tx |-> tx, err |-> "nil"]

\* "return ErrInvalidPointBuffer" inside the transaction function
invalidPointBuffer(tx) == [tx |-> tx, err |-> "ErrInvalidPointBuffer"]

\* the frame loop of writeSeries, run on the transaction's working copy tx
RECURSIVE writeSeriesLoop(_, _)
writeSeriesLoop(tx, batch) ==
  IF pointHeaderSize > Len(batch)
  THEN invalidPointBuffer(tx)
  ELSE LET h    == unmarshalPointHeader(SubSeq(batch, 1, pointHeaderSize))
           rest == SubSeq(batch, pointHeaderSize + 1, Len(batch))
       IN IF h.payloadLength > Len(rest)
          THEN invalidPointBuffer(tx)
          ELSE LET data == SubSeq(rest, 1, h.payloadLength)
                   name == u32tob(h.seriesID)
                   tx2  == BucketPut(CreateBucketIfNotExists(tx, name), name,
                                     u64tob(h.timestamp), data)
                   left == SubSeq(rest, h.payloadLength + 1, Len(rest))
               IN IF Len(left) = 0
                  THEN [tx |-> tx2, err |-> "nil"]
                  ELSE writeSeriesLoop(tx2, left)

\* the index Put left out
setIndexSkipped(tx, idx) == [tx |-> tx, err |-> "nil"]

\* "Set index": tx.Bucket("meta").Put("index", u64tob(index)); a missing
\* meta bucket is a nil *Bucket and the Put panics
setIndex(tx, idx) ==
  IF HasBucket(tx, metaBucket)
  THEN [tx |-> BucketPut(tx, metaBucket, indexKey, u64tob(idx)), err |-> "nil"]
  ELSE [tx |-> tx, err |-> "panic"]

\* the function writeSeries hands to store.Update
writeSeriesFn(tx, idx, batch) ==
  LET r == writeSeriesLoop(tx, batch)
  IN IF r.err # "nil" THEN r ELSE setIndex(r.tx, idx)

\* the function dropSeries hands to store.Update: ErrBucketNotFound becomes nil
dropSeriesFn(tx, seriesID) ==
  IF HasBucket(tx, u32tob(seriesID))
  THEN [tx |-> DeleteBucket(tx, u32tob(seriesID)), err |-> "nil"]
  ELSE [tx |-> tx, err |-> "nil"]

\* the function open hands to store.Update
openFn(tx) ==
  [tx  |-> CreateBucketIfNotExists(CreateBucketIfNotExists(tx, valuesBucket), metaBucket),
   err |-> "nil"]

\* "Find highest replicated index": s.index stays 0 unless meta.index has bytes
recoveredIndex(db) ==
  LET buf == BucketGet(db, metaBucket, indexKey)
  IN IF Len(buf) > 0 THEN btou64(buf) ELSE 0

\* s.store.Update(fn) with r the result of fn on the committed file db:
\* a nil handle panics, a closed DB refuses the transaction, an error or a
\* panic of fn rolls back, success commits the working copy
Update(st, db, r) ==
  IF st = "nil" THEN [db |-> db, err |-> "panic", tx |-> FALSE]
  ELSE IF st = "closed" THEN [db |-> db, err |-> "database not open", tx |-> FALSE]
  ELSE IF r.err = "nil" THEN [db |-> r.tx, err |-> "nil", tx |-> TRUE]
  ELSE [db |-> db, err |-> r.err, tx |-> TRUE]

writeSeries(st, db, idx, batch) == Update(st, db, writeSeriesFn(db, idx, batch))

dropSeries(st, db, seriesID) ==
  IF st = "nil" THEN [db |-> db, err |-> "nil", tx |-> FALSE]
  ELSE Update(st, db, dropSeriesFn(db, seriesID))

\* s.store.View(...) of readSeries
readSeries(st, db, seriesID, timestamp) ==
  IF st = "nil" THEN [val |-> <<>>, err |-> "panic", tx |-> FALSE]
  ELSE IF st = "closed" THEN [val |-> <<>>, err |-> "database not open", tx |-> FALSE]
  ELSE [val |-> BucketGet(db, u32tob(seriesID), u64tob(timestamp)), err |-> "nil", tx |-> TRUE]

\* the already-open check left out
alreadyOpenNever(st) == FALSE

\* "Return an error if the shard is already open."
alreadyOpen(st) == st # "nil"

\* a close that does not close the store
closeNothing(st) == st

\* Shard.close: s.store.Close() when the field is not nil; the field is kept
close(st) == IF st # "nil" THEN "closed" ELSE st

\* no message is taken as old
staleNever(mIndex, idx) == FALSE

\* the comparison off by one: the index just below s.index passes
staleOffByOne(mIndex, idx) == mIndex + 1 < idx

\* "Ignore any writes that are from an old index."
stale(mIndex, idx) == mIndex < idx

\* a receive that never reports the closed channel
recvOkAlways(closed) == TRUE

\* "m, ok := <-conn.C()": ok is false once the channel is closed
recvOk(closed) == ~closed

\* an error of writeSeries that does not stop the consumer
applyFailsNever(err) == FALSE

\* "if err := s.writeSeries(m.Index, m.Data); err != nil { panic(...) }"
applyFails(err) == err # "nil"

Ret(op, err, tx, arg, val) == [op |-> op, err |-> err, tx |-> tx, arg |-> arg, val |-> val]

(* ------------------------------ state ---------------------------------- *)
Init ==
  /\ store = "nil"
  /\ index = 0
  /\ file = EmptyFn
  /\ proc = "none"
  /\ cur = -1
  /\ chClosed = FALSE
  /\ panicked = FALSE
  /\ connOpens = <<>>
  /\ started = 0
  /\ handles = 0
  /\ committed = -1
  /\ ret = Ret("newShard", "nil", FALSE, 0, <<>>)
  /\ group = <<>>
  /\ gret = [op |-> "none", sid |-> 0, err |-> "nil", at |-> 0]
  /\ cin = <<>>
  /\ cout = <<>>

(* ----------------------------- Shard.open ------------------------------ *)
\* open on a shard whose store field is set
OpenRejected ==
  /\ ~panicked
  /\ alreadyOpen(store)
  /\ ret' = Ret("open", "shard already open", FALSE, 0, <<>>)
  /\ UNCHANGED <<store, index, file, proc, cur, chClosed, panicked, connOpens,
                 started, handles, committed>>
  /\ UNCHANGED groupVars

\* bolt.Open fails (lock timeout, I/O): nothing was assigned
OpenStoreFails ==
  /\ ~panicked
  /\ ~alreadyOpen(store)
  /\ ret' = Ret("open", "bolt open", FALSE, 0, <<>>)
  /\ UNCHANGED <<store, index, file, proc, cur, chClosed, panicked, connOpens,
                 started, handles, committed>>
  /\ UNCHANGED groupVars

\* the initialising transaction fails: s.close() and "init" error
OpenInitFails ==
  /\ ~panicked
  /\ ~alreadyOpen(store)
  /\ \E i \in {0, recoveredIndex(openFn(file).tx)} : index' = i
  /\ store' = close("open")
  /\ handles' = handles + (IF close("open") = "open" THEN 1 ELSE 0)
  /\ ret' = Ret("open", "init", TRUE, 0, <<>>)
  /\ UNCHANGED <<file, proc, cur, chClosed, panicked, connOpens, started,
                 committed>>
  /\ UNCHANGED groupVars

\* conn.Open returns an error: s.close() and "open shard conn" error
OpenConnFails ==
  /\ ~panicked
  /\ ~alreadyOpen(store)
  /\ LET r == Update("open", file, openFn(file))
     IN /\ file' = r.db
        /\ index' = recoveredIndex(r.db)
        /\ connOpens' = Append(connOpens, <<recoveredIndex(r.db), TRUE>>)
  /\ store' = close("open")
  /\ handles' = handles + (IF close("open") = "open" THEN 1 ELSE 0)
  /\ ret' = Ret("open", "open shard conn", TRUE, 0, <<>>)
  /\ UNCHANGED <<proc, cur, chClosed, panicked, started, committed>>
  /\ UNCHANGED groupVars

\* the happy path, ending in "go s.processor(conn)"
OpenOK ==
  /\ ~panicked
  /\ ~alreadyOpen(store)
  /\ LET r == Update("open", file, openFn(file))
     IN /\ file' = r.db
        /\ index' = recoveredIndex(r.db)
        /\ connOpens' = Append(connOpens, <<recoveredIndex(r.db), TRUE>>)
  /\ store' = "open"
  /\ handles' = handles + 1
  /\ proc' = "recv"
  /\ started' = started + 1
  /\ ret' = Ret("open", "nil", TRUE, 0, <<>>)
  /\ UNCHANGED <<cur, chClosed, panicked, committed>>
  /\ UNCHANGED groupVars

(* ----------------------------- Shard.close ----------------------------- *)
Close ==
  /\ ~panicked
  /\ store' = close(store)
  /\ handles' = IF store = "open" /\ close(store) # "open" THEN handles - 1 ELSE handles
  /\ ret' = Ret("close", "nil", FALSE, 0, <<>>)
  /\ UNCHANGED <<index, file, proc, cur, chClosed, panicked, connOpens,
                 started, committed>>
  /\ UNCHANGED groupVars

(* ------------------- calls made by other goroutines -------------------- *)
ReadSeries(seriesID, timestamp) ==
  /\ ~panicked
  /\ LET r == readSeries(store, file, seriesID, timestamp)
     IN /\ ret' = Ret("readSeries", r.err, r.tx, 0, r.val)
        /\ panicked' = (r.err = "panic")
  /\ UNCHANGED <<store, index, file, proc, cur, chClosed, connOpens, started,
                 handles, committed>>
  /\ UNCHANGED groupVars

WriteSeries(idx, batch) ==
  /\ ~panicked
  /\ LET r == writeSeries(store, file, idx, batch)
     IN /\ file' = r.db
        /\ ret' = Ret("writeSeries", r.err, r.tx, 0, batch)
        /\ committed' = IF r.err = "nil" THEN idx ELSE committed
        /\ panicked' = (r.err = "panic")
  /\ UNCHANGED <<store, index, proc, cur, chClosed, connOpens, started,
                 handles>>
  /\ UNCHANGED groupVars

DropSeries(seriesID) ==
  /\ ~panicked
  /\ LET r == dropSeries(store, file, seriesID)
     IN /\ file' = r.db
        /\ ret' = Ret("dropSeries", r.err, r.tx, seriesID, <<>>)
  /\ UNCHANGED <<store, index, proc, cur, chClosed, panicked, connOpens,
                 started, handles, committed>>
  /\ UNCHANGED groupVars

(* --------------------------- Shard.processor --------------------------- *)
\* "m, ok := <-conn.C(); if !ok { return }"
ProcessorExit ==
  /\ ~panicked
  /\ proc = "recv"
  /\ ~recvOk(chClosed)
  /\ proc' = "stopped"
  /\ ret' = Ret("processor", "exit", FALSE, 0, <<>>)
  /\ UNCHANGED <<store, index, file, cur, chClosed, panicked, connOpens,
                 started, handles, committed>>
  /\ UNCHANGED groupVars

\* a message older than s.index: continue
ProcessorStale(m) ==
  /\ ~panicked
  /\ proc = "recv"
  /\ recvOk(chClosed)
  /\ stale(m.Index, index)
  /\ ret' = Ret("processor", "stale", FALSE, m.Index, <<>>)
  /\ UNCHANGED <<store, index, file, proc, cur, chClosed, panicked, connOpens,
                 started, handles, committed>>
  /\ UNCHANGED groupVars

\* the default case of the switch: panic
ProcessorBadType(m) ==
  /\ ~panicked
  /\ proc = "recv"
  /\ recvOk(chClosed)
  /\ ~stale(m.Index, index)
  /\ m.Type # writeRawSeriesMessageType
  /\ panicked' = TRUE
  /\ ret' = Ret("processor", "panic", FALSE, m.Index, <<>>)
  /\ UNCHANGED <<store, index, file, proc, cur, chClosed, connOpens, started,
                 handles, committed>>
  /\ UNCHANGED groupVars

\* writeRawSeriesMessageType: writeSeries(m.Index, m.Data), panic on error
ProcessorWrite(m) ==
  /\ ~panicked
  /\ proc = "recv"
  /\ recvOk(chClosed)
  /\ ~stale(m.Index, index)
  /\ m.Type = writeRawSeriesMessageType
  /\ LET r == writeSeries(store, file, m.Index, m.Data)
     IN /\ file' = r.db
        /\ panicked' = applyFails(r.err)
        /\ proc' = IF applyFails(r.err) THEN proc ELSE "track"
        /\ cur' = IF applyFails(r.err) THEN cur ELSE m.Index
        /\ ret' = Ret("processor", IF applyFails(r.err) THEN "panic" ELSE "nil",
                      r.tx, m.Index, m.Data)
        /\ committed' = IF r.err = "nil" THEN m.Index ELSE committed
  /\ UNCHANGED <<store, index, chClosed, connOpens, started, handles>>
  /\ UNCHANGED groupVars

\* "Track last index": s.index = m.Index
ProcessorTrack ==
  /\ ~panicked
  /\ proc = "track"
  /\ index' = cur
  /\ proc' = "recv"
  /\ cur' = -1
  /\ ret' = Ret("processor", "track", FALSE, cur, <<>>)
  /\ UNCHANGED <<store, file, chClosed, panicked, connOpens, started, handles,
                 committed>>
  /\ UNCHANGED groupVars

(* ---------------------------- environment ------------------------------ *)
\* the broker connection is torn down: its channel is closed
ConnClose ==
  /\ ~panicked
  /\ ~chClosed
  /\ chClosed' = TRUE
  /\ ret' = Ret("connClose", "nil", FALSE, 0, <<>>)
  /\ UNCHANGED <<store, index, file, proc, cur, panicked, connOpens, started,
                 handles, committed>>
  /\ UNCHANGED groupVars

\* the process ends (exit, crash or panic) and a new one starts with
\* newShard() and a new connection on the same store file
Restart ==
  /\ store' = "nil"
  /\ index' = 0
  /\ proc' = "none"
  /\ cur' = -1
  /\ chClosed' = FALSE
  /\ panicked' = FALSE
  /\ connOpens' = <<>>
  /\ started' = 0
  /\ handles' = 0
  /\ ret' = Ret("newShard", "nil", FALSE, 0, <<>>)
  /\ UNCHANGED <<file, committed>>
  /\ UNCHANGED groupVars

Next ==
  \/ OpenRejected
  \/ OpenStoreFails
  \/ OpenInitFails
  \/ OpenConnFails
  \/ OpenOK
  \/ Close
  \/ \E sid \in SeriesIDs, t \in Timestamps : ReadSeries(sid, t)
  \/ \E i \in Indexes, b \in Batches : WriteSeries(i, b)
  \/ \E sid \in SeriesIDs : DropSeries(sid)
  \/ ProcessorExit
  \/ \E m \in Messages : ProcessorStale(m)
  \/ \E m \in Messages : ProcessorBadType(m)
  \/ \E m \in Messages : ProcessorWrite(m)
  \/ ProcessorTrack
  \/ ConnClose
  \/ Restart

Spec == Init /\ [][Next]_vars

(* ----------------------------- ShardGroup ------------------------------ *)
\* the state of the single Shard while the group is exercised
ShardIdle ==
  /\ store = "nil"
  /\ index = 0
  /\ file = EmptyFn
  /\ proc = "none"
  /\ cur = -1
  /\ chClosed = FALSE
  /\ panicked = FALSE
  /\ connOpens = <<>>
  /\ started = 0
  /\ handles = 0
  /\ committed = -1
  /\ ret = Ret("newShard", "nil", FALSE, 0, <<>>)

GRet(op, sid, err, at) == [op |-> op, sid |-> sid, err |-> err, at |-> at]

\* a group of GroupSize new shards, each on its own fresh file
GroupInit ==
  /\ ShardIdle
  /\ group = [i \in 1 .. GroupSize |-> [store |-> "nil", file |-> EmptyFn]]
  /\ gret = GRet("newShardGroup", 0, "nil", 0)
  /\ cin = <<>>
  /\ cout = <<>>

\* an error of a shard that does not end the loop
stopOnErrorNever(err) == FALSE

\* "if err != nil { return err }" in the loop of ShardGroup.dropSeries
stopOnError(err) == err # "nil"

\* the loop of ShardGroup.dropSeries from shard i on: at is the shard whose
\* error is returned, 0 when there is none
RECURSIVE groupDropFrom(_, _, _)
groupDropFrom(shards, i, seriesID) ==
  IF i > Len(shards) THEN [shards |-> shards, err |-> "nil", at |-> 0]
  ELSE LET r == dropSeries(shards[i].store, shards[i].file, seriesID)
       IN IF stopOnError(r.err)
          THEN [shards |-> shards, err |-> r.err, at |-> i]
          ELSE groupDropFrom([shards EXCEPT ![i].file = r.db], i + 1, seriesID)

groupDropSeries(shards, seriesID) == groupDropFrom(shards, 1, seriesID)

\* ShardGroup.close: close of every shard, errors ignored
groupClose(shards) ==
  [i \in 1 .. Len(shards) |-> [shards[i] EXCEPT !.store = close(shards[i].store)]]

\* a successful open of member shard i
GroupShardOpen(i) ==
  /\ ~alreadyOpen(group[i].store)
  /\ group' = [group EXCEPT ![i] = [store |-> "open",
                                    file |-> Update("open", group[i].file,
                                                    openFn(group[i].file)).db]]
  /\ gret' = GRet("open", 0, "nil", i)
  /\ UNCHANGED <<shardVars, cin, cout>>

\* close of member shard i
GroupShardClose(i) ==
  /\ group' = [group EXCEPT ![i].store = close(group[i].store)]
  /\ gret' = GRet("close", 0, "nil", i)
  /\ UNCHANGED <<shardVars, cin, cout>>

\* a successful writeSeries on member shard i
GroupShardWrite(i, batch) ==
  /\ LET r == writeSeries(group[i].store, group[i].file, 0, batch)
     IN /\ r.err = "nil"
        /\ group' = [group EXCEPT ![i].file = r.db]
  /\ gret' = GRet("writeSeries", 0, "nil", i)
  /\ UNCHANGED <<shardVars, cin, cout>>

GroupDropSeries(seriesID) ==
  /\ LET r == groupDropSeries(group, seriesID)
     IN /\ group' = r.shards
        /\ gret' = GRet("dropSeries", seriesID, r.err, r.at)
  /\ UNCHANGED <<shardVars, cin, cout>>

GroupClose ==
  /\ group' = groupClose(group)
  /\ gret' = GRet("groupClose", 0, "nil", 0)
  /\ UNCHANGED <<shardVars, cin, cout>>

GroupNext ==
  \/ \E i \in 1 .. GroupSize : GroupShardOpen(i)
  \/ \E i \in 1 .. GroupSize : GroupShardClose(i)
  \/ \E i \in 1 .. GroupSize, b \in {BatchOne, BatchMeta} : GroupShardWrite(i, b)
  \/ \E sid \in SeriesIDs : GroupDropSeries(sid)
  \/ GroupClose

GroupSpec == GroupInit /\ [][GroupNext]_vars

(* --------------------------- ShardGroup.Contains ----------------------- *)
\* instants, as numbers on one time line
Times == (0 .. MaxTime) \cup {50, 90, 100, 120, 150, 160, 180, 200}

\* time.Time.Before and time.Time.After: strictly earlier, strictly later
Before(t, u) == t < u
After(t, u) == t > u

\* t is in [min, max], both ends included
timeBetweenInclusive(t, min, max) == ~Before(t, min) /\ ~After(t, max)

\* Contains without its third case
ContainsNoEnclose(StartTime, EndTime, min, max) ==
  \/ timeBetweenInclusive(StartTime, min, max)
  \/ timeBetweenInclusive(EndTime, min, max)

Contains(StartTime, EndTime, min, max) ==
  \/ timeBetweenInclusive(StartTime, min, max)
  \/ timeBetweenInclusive(EndTime, min, max)
  \/ (Before(StartTime, min) /\ After(EndTime, max))

\* a group with any StartTime and EndTime, asked about any min and max
ContainsInit ==
  /\ ShardIdle
  /\ group = <<>>
  /\ gret = GRet("none", 0, "nil", 0)
  /\ cin \in Times \X Times \X Times \X Times
  /\ cout = <<>>

ContainsCall ==
  /\ cout = <<>>
  /\ cout' = <<Contains(cin[1], cin[2], cin[3], cin[4])>>
  /\ UNCHANGED <<shardVars, group, gret, cin>>

ContainsNext == ContainsCall

ContainsSpec == ContainsInit /\ [][ContainsNext]_vars

\* the shard with its consumer as the only writer of the store: no caller
\* calls writeSeries or dropSeries
ConsumerNext ==
  \/ OpenRejected
  \/ OpenStoreFails
  \/ OpenInitFails
  \/ OpenConnFails
  \/ OpenOK
  \/ Close
  \/ \E sid \in SeriesIDs, t \in Timestamps : ReadSeries(sid, t)
  \/ ProcessorExit
  \/ \E m \in Messages : ProcessorStale(m)
  \/ \E m \in Messages : ProcessorBadType(m)
  \/ \E m \in Messages : ProcessorWrite(m)
  \/ ProcessorTrack
  \/ ConnClose
  \/ Restart

ConsumerSpec == Init /\ [][ConsumerNext]_vars

\* the consumer goroutine is scheduled: a step it can take is taken
ConsumerFairSpec ==
  /\ Init
  /\ [][ConsumerNext]_vars
  /\ WF_vars(ProcessorExit)
  /\ WF_vars(ProcessorTrack)

TypeOK ==
  /\ store \in {"nil", "open", "closed"}
  /\ index \in Indexes
  /\ proc \in {"none", "recv", "track", "stopped"}
  /\ cur \in Indexes \cup {-1}
  /\ chClosed \in BOOLEAN
  /\ panicked \in BOOLEAN
  /\ started \in Nat
  /\ handles \in Nat
  /\ committed \in Indexes \cup {-1}

(* ======================= properties of the shard ======================= *)
\* meta.index is present in the committed file
HasIndex(db) == HasBucket(db, metaBucket) /\ indexKey \in DOMAIN db[metaBucket]

\* the value a reader finds under meta.index, 0 when there is none
metaIndex(db) == btou64(BucketGet(db, metaBucket, indexKey))

F(seriesID, timestamp, data) ==
  [seriesID |-> seriesID, timestamp |-> timestamp, data |-> data]

\* the complete frames each input batch carries before its end or its
\* malformed frame
FramesIn(batch) ==
  CASE batch = BatchOne      -> << F(7, 42, <<1, 2, 3>>) >>
    [] batch = BatchUpsert   -> << F(7, 42, <<4>>), F(7, 43, <<6>>), F(7, 42, <<5>>) >>
    [] batch = BatchBadLen   -> << F(7, 43, <<8>>) >>
    [] batch = BatchShortHdr -> << F(7, 43, <<8>>) >>
    [] batch = BatchMeta     -> << F(MetaID, 42, <<7>>) >>
    [] OTHER                 -> << >>

MalformedBatches == {BatchBadLen, BatchShortHdr}

Stored(db, seriesID, timestamp) ==
  BucketGet(db, u32tob(seriesID), u64tob(timestamp))

\* every frame of fl is readable, the last frame of a (series, timestamp) winning
AllStored(db, fl) ==
  \A i \in 1 .. Len(fl) :
    LET same == {j \in 1 .. Len(fl) : /\ fl[j].seriesID = fl[i].seriesID
                                      /\ fl[j].timestamp = fl[i].timestamp}
        last == CHOOSE j \in same : \A k \in same : k <= j
    IN Stored(db, fl[i].seriesID, fl[i].timestamp) = fl[last].data

\* the step is a call of writeSeries, by a caller or by the consumer
WriteStep ==
  \/ ret'.op = "writeSeries"
  \/ ret'.op = "processor" /\ ret'.tx

\* the batches of the inputs that are a sequence of complete frames
WellFormedBatches == {BatchOne, BatchUpsert, BatchMeta}

(* C1: exactly once per index: when the consumer has just applied (written *)
(* and tracked) a message and a message with the same index, whose frames  *)
(* are the ones the store holds under that index, is delivered again, the  *)
(* second delivery performs no write, the store is unchanged and the index *)
(* is not lowered.                                                         *)
C1_ExactlyOncePerIndex ==
  [][ ( /\ ret.op = "processor" /\ ret.err = "track"
        /\ ret'.op = "processor" /\ ret'.err \in {"nil", "stale", "panic"}
        /\ ret'.arg = ret.arg
        /\ ret'.val \in WellFormedBatches
        /\ HasIndex(file) /\ metaIndex(file) = ret.arg
        /\ AllStored(file, FramesIn(ret'.val)) )
      => (~ret'.tx /\ file' = file /\ index' >= index) ]_vars

(* C2: the in-memory index of a Shard never decreases: every step other    *)
(* than the creation of a new Shard leaves index at or above its value.    *)
C2_IndexNeverDecreases ==
  [][ ret'.op # "newShard" => index' >= index ]_vars

\* the consumer discarded an old message on a shard whose index had advanced
C2_Witness ==
  /\ store = "open"
  /\ index = MaxIndex
  /\ ret.op = "processor"
  /\ ret.err = "stale"

(* C3: writeSeries is atomic with the persisted index: a call either       *)
(* leaves the committed file as it was, or succeeds and commits every      *)
(* frame of its batch together with meta.index = its index argument.       *)
C3_WriteAtomicWithIndex ==
  [][ WriteStep =>
        /\ ret'.err # "nil" => (file' = file /\ committed' = committed)
        /\ \/ file' = file
           \/ /\ ret'.err = "nil"
              /\ AllStored(file', FramesIn(ret'.val))
              /\ HasIndex(file')
              /\ metaIndex(file') = committed' ]_vars

\* a three-frame batch was committed by the consumer with its index
C3_Witness ==
  /\ ret.op = "processor"
  /\ ret.err = "nil"
  /\ ret.val = BatchUpsert
  /\ ret.arg = 1
  /\ Stored(file, 7, 42) = <<5>>
  /\ Stored(file, 7, 43) = <<6>>
  /\ metaIndex(file) = 1

(* C4: a batch with a malformed frame makes writeSeries on an open shard   *)
(* return the invalid-point-buffer error and leaves the committed file     *)
(* exactly as before: no earlier frame, no new bucket, same meta.index.    *)
C4_MalformedBatchAtomic ==
  [][ (ret'.op = "writeSeries" /\ store = "open" /\ ret'.val \in MalformedBatches)
      => (ret'.err = "ErrInvalidPointBuffer" /\ file' = file) ]_vars

\* the batch with the overlong second frame was refused on a store that
\* holds neither its first frame nor a bucket for the series
C4_Witness ==
  /\ ret.op = "writeSeries"
  /\ ret.val = BatchBadLen
  /\ ret.err = "ErrInvalidPointBuffer"
  /\ ret.tx
  /\ store = "open"
  /\ ~HasBucket(file, u32tob(7))
  /\ HasBucket(file, metaBucket)

(* C5: an open that reaches conn.Open passes (N, true) and holds N in      *)
(* memory, N being the index of the last writeSeries committed to the      *)
(* file, or 0 when none was.                                               *)
C5_ReopenRecoversIndex ==
  [][ (ret'.op = "open" /\ Len(connOpens') > Len(connOpens))
      => LET N == IF committed = -1 THEN 0 ELSE committed
         IN /\ connOpens'[Len(connOpens')] = <<N, TRUE>>
            /\ index' = N ]_vars

C7_AlreadyOpenRejected ==
  [][ /\ (ret'.op = "open" /\ store # "nil")
         => /\ ret'.err = "shard already open"
            /\ UNCHANGED <<store, index, file, proc, connOpens, started, handles>>
      /\ started' <= 1
      /\ handles' <= 1 ]_vars

\* an open was rejected on a shard that had been opened and closed
C7_Witness ==
  /\ ret.op = "open"
  /\ ret.err = "shard already open"
  /\ store = "closed"
  /\ started = 1
  /\ handles = 0

(* C8: an open that fails after bolt.Open succeeded returns an error with  *)
(* the store closed, no handle left open and no consumer started.          *)
C8_FailedOpenLeaksNothing ==
  [][ (ret'.op = "open" /\ ret'.err \in {"init", "open shard conn"})
      => /\ store' = "closed"
         /\ handles' = 0
         /\ started' = 0
         /\ proc' = "none" ]_vars

\* conn.Open was called and failed: the store is closed, nothing runs
C8_Witness ==
  /\ ret.op = "open"
  /\ ret.err = "open shard conn"
  /\ Len(connOpens) = 1
  /\ store = "closed"
  /\ handles = 0
  /\ proc = "none"

(* C9: close returns success and afterwards the shard holds no store       *)
(* handle: its store field is nil, as on a shard never opened.             *)
C9_CloseReleasesHandle ==
  [][ ret'.op = "close" => (ret'.err = "nil" /\ store' = "nil") ]_vars

(* C10: dropSeries on a shard without an open store (never opened, open    *)
(* failed, or closed) returns success and begins no store transaction.     *)
C10_DropWithoutStoreIsNoop ==
  [][ (ret'.op = "dropSeries" /\ store # "open")
      => (ret'.err = "nil" /\ ~ret'.tx /\ file' = file) ]_vars

(* C11: on an open shard dropSeries(s) returns success; when no timestamp  *)
(* of s holds data it changes nothing; afterwards readSeries(s, t) is      *)
(* absent for every t, and the data of every other series is as before.    *)
C11_DropSemantics ==
  [][ (ret'.op = "dropSeries" /\ store = "open") =>
        LET s == ret'.arg
        IN /\ ret'.err = "nil"
           /\ (\A t \in Timestamps : Stored(file, s, t) = <<>>) => file' = file
           /\ \A t \in Timestamps : readSeries(store', file', s, t).val = <<>>
           /\ \A o \in SeriesIDs \ {s}, t \in Timestamps :
                Stored(file', o, t) = Stored(file, o, t) ]_vars

\* the value readSeries must return for (seriesID, timestamp) after a
\* writeSeries of the frames fl on the committed file db
Expected(db, fl, seriesID, timestamp) ==
  LET hits == {i \in 1 .. Len(fl) : /\ fl[i].seriesID = seriesID
                                    /\ fl[i].timestamp = timestamp}
  IN IF hits = {} THEN Stored(db, seriesID, timestamp)
     ELSE fl[CHOOSE i \in hits : \A k \in hits : k <= i].data

(* C12: after a successful writeSeries, readSeries returns for every       *)
(* (series, timestamp) of the batch the payload of its last frame with     *)
(* that pair and for every other pair what it returned before; a series    *)
(* never written (9) reads as absent, without error.                       *)
C12_WriteReadRoundTrip ==
  [][ /\ (WriteStep /\ ret'.err = "nil") =>
           \A sid \in SeriesIDs, t \in Timestamps :
             LET r == readSeries(store', file', sid, t)
             IN /\ r.err = "nil"
                /\ r.val = Expected(file, FramesIn(ret'.val), sid, t)
      /\ store' = "open" =>
           \A t \in Timestamps :
             LET r == readSeries(store', file', 9, t)
             IN r.err = "nil" /\ r.val = <<>> ]_vars

\* the three-frame batch was written over the value of an earlier batch:
\* its last frame for (7, 42) is read back, (7, 43) too
C12_Witness ==
  /\ ret.op = "writeSeries"
  /\ ret.err = "nil"
  /\ ret.val = BatchUpsert
  /\ readSeries(store, file, 7, 42).val = <<5>>
  /\ readSeries(store, file, 7, 43).val = <<6>>
  /\ readSeries(store, file, MetaID, 42).val = <<7>>

(* C16: a message whose index is below the in-memory index is discarded    *)
(* by the consumer whatever its type and data: no transaction, no change   *)
(* of the index, the store or the file, no panic, and the loop goes on.    *)
C16_StaleDiscard ==
  [][ ( /\ ret'.op = "processor"
        /\ proc = "recv"
        /\ ret'.err \notin {"exit", "track"}
        /\ ret'.arg < index )
      => /\ ret'.err = "stale"
         /\ ~ret'.tx
         /\ ~panicked'
         /\ proc' = "recv"
         /\ UNCHANGED <<store, index, file, committed, cur>> ]_vars

\* index 0 was delivered to a shard at index 1 and dropped
C16_Witness ==
  /\ ret.op = "processor"
  /\ ret.err = "stale"
  /\ ret.arg = 0
  /\ index = 1
  /\ proc = "recv"
  /\ ~panicked

(* C17: a message at or above the in-memory index that cannot be applied   *)
(* (unknown type, malformed batch, store not open) aborts the process:     *)
(* the index is not advanced, the file is unchanged, and nothing runs      *)
(* after the abort but a new process.                                      *)
C17_FailFast ==
  [][ /\ ( /\ ret'.op = "processor"
           /\ proc = "recv"
           /\ ret'.err \notin {"exit", "track"}
           /\ ret'.arg >= index
           /\ (store # "open" \/ ret'.val \notin WellFormedBatches) )
         => /\ ret'.err = "panic"
            /\ panicked'
            /\ UNCHANGED <<index, file, committed, proc, cur>>
      /\ panicked => ret'.op = "newShard" ]_vars

\* the consumer at index 1 aborted on a malformed batch of index 2
C17_Witness ==
  /\ panicked
  /\ ret.op = "processor"
  /\ ret.err = "panic"
  /\ ret.val = BatchBadLen
  /\ ret.arg = 2
  /\ index = 1
  /\ metaIndex(file) = 1

(* C18: in every state of an open shard the meta bucket exists and holds   *)
(* no key but "index", whatever series ids were written and dropped.       *)
C18_MetaBucketIsolated ==
  store = "open" =>
    /\ HasBucket(file, metaBucket)
    /\ DOMAIN file[metaBucket] \subseteq {indexKey}

\* the bytes of the frames fl, marshalled one after the other
RECURSIVE Encode(_)
Encode(fl) ==
  IF fl = <<>> THEN <<>>
  ELSE Frame(Head(fl).seriesID, Head(fl).timestamp, Head(fl).data) \o Encode(Tail(fl))

(* C20: writeSeries of the empty batch on an open shard returns the        *)
(* invalid-point-buffer error and leaves meta.index as it was; a           *)
(* successful writeSeries had a batch that is one or more complete frames  *)
(* and nothing else.                                                       *)
C20_BatchExactlyConsumed ==
  [][ /\ (ret'.op = "writeSeries" /\ store = "open" /\ ret'.val = BatchEmpty)
         => (ret'.err = "ErrInvalidPointBuffer" /\ file' = file /\ committed' = committed)
      /\ (WriteStep /\ ret'.err = "nil")
         => /\ Len(FramesIn(ret'.val)) >= 1
            /\ Encode(FramesIn(ret'.val)) = ret'.val ]_vars

\* the empty batch was refused with index 2 on a store whose meta.index is 1
C20_Witness ==
  /\ ret.op = "writeSeries"
  /\ ret.val = BatchEmpty
  /\ ret.err = "ErrInvalidPointBuffer"
  /\ store = "open"
  /\ HasIndex(file)
  /\ metaIndex(file) = 1

(* C13: the consumer runs from the end of a successful open; it stops,     *)
(* changing nothing, exactly on a receive from the closed channel, and     *)
(* does nothing afterwards; close() does not move it; once the channel is  *)
(* closed a running consumer finishes the message it holds and stops,      *)
(* unless the process aborts or ends first.                                *)
C13_ConsumerTermination ==
  /\ [][ /\ (ret'.op = "open" /\ ret'.err = "nil") => proc' = "recv"
         /\ (proc' = "stopped" /\ proc # "stopped")
              => /\ chClosed /\ proc = "recv" /\ cur = -1
                 /\ ret'.op = "processor" /\ ret'.err = "exit"
                 /\ UNCHANGED <<store, index, file, committed, panicked>>
         /\ (proc = "recv" /\ chClosed /\ ret'.op = "processor") => ret'.err = "exit"
         /\ (proc = "stopped" /\ ret'.op # "newShard")
              => (proc' = "stopped" /\ ret'.op # "processor")
         /\ ret'.op = "close" => proc' = proc ]_vars
  /\ (chClosed /\ proc \in {"recv", "track"})
       ~> (proc = "stopped" \/ panicked \/ proc = "none")

\* the consumer stopped after it had applied and tracked index 2, and the
\* shard was never closed
C13_Witness ==
  /\ proc = "stopped"
  /\ chClosed
  /\ store = "open"
  /\ index = 2
  /\ metaIndex(file) = 2
  /\ cur = -1

(* C19: with the consumer as the only writer, a shard whose consumer was   *)
(* started holds an in-memory index at or below meta.index, equal to it    *)
(* whenever the consumer waits for a message; a successful open recovers   *)
(* exactly meta.index, so a reopen after a crash is never below an index   *)
(* the shard held.                                                         *)
C19_IndexAtMostPersisted ==
  [][ /\ proc' \in {"recv", "track", "stopped"}
         => /\ index' <= metaIndex(file')
            /\ proc' = "recv" => index' = metaIndex(file')
      /\ ret'.op = "newShard" => index <= metaIndex(file')
      /\ (ret'.op = "open" /\ ret'.err = "nil") => index' = metaIndex(file') ]_vars

\* the consumer committed index 2 and still holds index 1 in memory
C19_Witness ==
  /\ proc = "track"
  /\ store = "open"
  /\ cur = 2
  /\ index = 1
  /\ metaIndex(file) = 2

\* the member shards whose dropSeries returns an error: those that hold a
\* handle to a closed store
Failing(shards) == {i \in 1 .. Len(shards) : shards[i].store = "closed"}

(* C14: ShardGroup.dropSeries goes through the shards in order and         *)
(* returns the error of the first shard that fails: the shards before it   *)
(* have lost the series bucket and kept the rest, that shard and the ones  *)
(* after it are untouched; when no shard fails the result is success and   *)
(* no shard holds the series bucket.                                       *)
C14_GroupDropStopsAtFirstError ==
  [][ gret'.op = "dropSeries" =>
        LET name  == u32tob(gret'.sid)
            fails == Failing(group)
            k     == IF fails = {} THEN Len(group) + 1
                     ELSE CHOOSE i \in fails : \A j \in fails : i <= j
        IN /\ gret'.err = (IF fails = {} THEN "nil" ELSE "database not open")
           /\ gret'.at = (IF fails = {} THEN 0 ELSE k)
           /\ \A i \in 1 .. Len(group) :
                IF i < k
                THEN /\ group'[i].store = group[i].store
                     /\ ~HasBucket(group'[i].file, name)
                     /\ \A n \in DOMAIN group[i].file \ {name} :
                          /\ HasBucket(group'[i].file, n)
                          /\ group'[i].file[n] = group[i].file[n]
                ELSE group'[i] = group[i] ]_vars

\* the second shard failed: the first lost its bucket of series 7, the
\* third, open, still has its own
C14_Witness ==
  /\ gret.op = "dropSeries"
  /\ gret.sid = 7
  /\ gret.err = "database not open"
  /\ gret.at = 2
  /\ group[1].store = "open"
  /\ HasBucket(group[1].file, metaBucket)
  /\ ~HasBucket(group[1].file, u32tob(7))
  /\ group[2].store = "closed"
  /\ HasBucket(group[2].file, u32tob(7))
  /\ group[3].store = "open"
  /\ HasBucket(group[3].file, u32tob(7))

(* C15: Contains(min, max) is true exactly when StartTime or EndTime is in  *)
(* [min, max], ends included, or StartTime < min and EndTime > max; when   *)
(* StartTime <= EndTime and min <= max that is the same as the closed      *)
(* intervals [StartTime, EndTime] and [min, max] sharing a point; for      *)
(* Start=100, End=200: (150,160), (50,150), (120,180) give true and        *)
(* (50,90) gives false.                                                    *)
C15_ContainsIsOverlap ==
  cout # <<>> =>
    LET S  == cin[1]
        E  == cin[2]
        mn == cin[3]
        mx == cin[4]
        result == cout[1]
    IN /\ result <=> \/ (mn <= S /\ S <= mx)
                     \/ (mn <= E /\ E <= mx)
                     \/ (S < mn /\ E > mx)
       /\ (S <= E /\ mn <= mx) =>
            (result <=> (S .. E) \cap (mn .. mx) # {})
       /\ cin \in {<<100, 200, 150, 160>>, <<100, 200, 50, 150>>,
                   <<100, 200, 120, 180>>} => result
       /\ cin = <<100, 200, 50, 90>> => ~result

\* the asked range strictly inside the group's window: only the third case
C15_Witness == cin = <<100, 200, 120, 180>> /\ cout = <<TRUE>>

====
